---- MODULE Spec2Model ----
(***************************************************************************)
(* Model of the costume generators of the Printer sprite:                 *)
(*   src/archived/raster_costumes/create_raster_costumes.py  (raster)     *)
(*   src/src/create_vector_costumes.py                       (vector)     *)
(*                                                                         *)
(* Text that the program inspects character by character (costume names,  *)
(* font ids, Unicode names) is a sequence of one-character strings; the   *)
(* characters the notation cannot quote are written by code point:       *)
(* "U+0060" (grave accent), "U+20AC", "U+00A3", "U+FFFD".                  *)
(* Text that is only compared or concatenated (file names, digests) is a  *)
(* string.  File content is a sequence of string tokens.                  *)
(***************************************************************************)
EXTENDS Integers, Sequences, FiniteSets, TLC

(***************************************************************************)
(* Bounds of the model.                                                    *)
(***************************************************************************)
\* how many of the raster fonts a raster run renders
NumFonts == 2
\* how many distinct images the external renderer can produce
NumImages == 2
\* how many costumes a caller of assemble_sprite appends by hand
MaxCostumes == 3

(***************************************************************************)
(* Configuration: create_raster_costumes.py:13-34, 60-67, 52-53 and       *)
(* create_vector_costumes.py:51-76, 83-87, 104-105.                        *)
(***************************************************************************)
fonts ==
    << [id |-> <<"s", "a", "n", "s">>,
        filename |-> "/usr/share/fonts/truetype/dejavu/DejaVuSans.ttf"],
       [id |-> <<"m", "o", "n", "o">>,
        filename |-> "/usr/share/fonts/truetype/ttf-bitstream-vera/VeraMono.ttf"],
       [id |-> <<"d", "e", "c", "o", "r">>,
        filename |-> "/usr/share/fonts/truetype/aenigma/hillock.ttf"],
       [id |-> <<"s", "c", "r", "a", "w", "l">>,
        filename |-> "/usr/share/fonts/truetype/aenigma/aescrawl.ttf"] >>

vector_fonts ==
    << [id |-> <<"h", "a", "n", "d", "w", "r", "i", "t", "i", "n", "g">>,
        fontname |-> "Handwriting"],
       [id |-> <<"s", "a", "n", "s", "-", "s", "e", "r", "i", "f">>,
        fontname |-> "Sans Serif"],
       [id |-> <<"s", "e", "r", "i", "f">>, fontname |-> "Serif"],
       [id |-> <<"c", "u", "r", "l", "y">>, fontname |-> "Curly"],
       [id |-> <<"m", "a", "r", "k", "e", "r">>, fontname |-> "Marker"],
       [id |-> <<"p", "i", "x", "e", "l">>, fontname |-> "Pixel"] >>

characters ==
    <<"a", "b", "c", "d", "e", "f", "g", "h", "i", "j", "k", "l", "m", "n", "o", "p", "q", "r", "s", "t", "u", "v", "w", "x", "y", "z">> \o
    <<"A", "B", "C", "D", "E", "F", "G", "H", "I", "J", "K", "L", "M", "N", "O", "P", "Q", "R", "S", "T", "U", "V", "W", "X", "Y", "Z">> \o
    <<"0", "1", "2", "3", "4", "5", "6", "7", "8", "9">> \o
    <<"U+0060", "~", "!", "@", "#", "$", "U+20AC", "U+00A3", "%", "^", "&", "*", "(", ")", "-", "_", "=", "+", "[", "{", "]", "}", "\\", "|", ";", ":", "'", "\"", "<", ",", ">", ".", "?", "/", " ">>

replacement_font == "/usr/share/fonts/truetype/dejavu/DejaVuSans.ttf"

replacement_character == "U+FFFD"

\* raster: width = 60 * 4, height = 80 * 4
width == 60 * 4

height == 80 * 4

\* vector: width = 40, height = 50
vector_width == 40

vector_height == 50

(***************************************************************************)
(* Text helpers.                                                           *)
(***************************************************************************)
Range(s) == { s[i] : i \in 1..Len(s) }

lowercase_letters ==
    <<"a", "b", "c", "d", "e", "f", "g", "h", "i", "j", "k", "l", "m",
      "n", "o", "p", "q", "r", "s", "t", "u", "v", "w", "x", "y", "z">>

uppercase_letters ==
    <<"A", "B", "C", "D", "E", "F", "G", "H", "I", "J", "K", "L", "M",
      "N", "O", "P", "Q", "R", "S", "T", "U", "V", "W", "X", "Y", "Z">>

digits == <<"0", "1", "2", "3", "4", "5", "6", "7", "8", "9">>

\* str.lower() on one character: only A-Z change for the characters the
\* program handles (none of the three non-ASCII ones is cased)
lower_char(c) ==
    IF c \in Range(uppercase_letters)
    THEN lowercase_letters[CHOOSE i \in 1..26 : uppercase_letters[i] = c]
    ELSE c

\* str.lower()
lower(s) == [i \in 1..Len(s) |-> lower_char(s[i])]

\* str.replace(old, new) for one-character old and new
replace(s, old, new) == [i \in 1..Len(s) |-> IF s[i] = old THEN new ELSE s[i]]

\* unicodedata.name(character) for the characters the program names
unicodedata_name_table ==
       ("U+0060" :> <<"G", "R", "A", "V", "E", " ", "A", "C", "C", "E", "N", "T">>)
    @@ ("~" :> <<"T", "I", "L", "D", "E">>)
    @@ ("!" :> <<"E", "X", "C", "L", "A", "M", "A", "T", "I", "O", "N", " ", "M", "A", "R", "K">>)
    @@ ("@" :> <<"C", "O", "M", "M", "E", "R", "C", "I", "A", "L", " ", "A", "T">>)
    @@ ("#" :> <<"N", "U", "M", "B", "E", "R", " ", "S", "I", "G", "N">>)
    @@ ("$" :> <<"D", "O", "L", "L", "A", "R", " ", "S", "I", "G", "N">>)
    @@ ("U+20AC" :> <<"E", "U", "R", "O", " ", "S", "I", "G", "N">>)
    @@ ("U+00A3" :> <<"P", "O", "U", "N", "D", " ", "S", "I", "G", "N">>)
    @@ ("%" :> <<"P", "E", "R", "C", "E", "N", "T", " ", "S", "I", "G", "N">>)
    @@ ("^" :> <<"C", "I", "R", "C", "U", "M", "F", "L", "E", "X", " ", "A", "C", "C", "E", "N", "T">>)
    @@ ("&" :> <<"A", "M", "P", "E", "R", "S", "A", "N", "D">>)
    @@ ("*" :> <<"A", "S", "T", "E", "R", "I", "S", "K">>)
    @@ ("(" :> <<"L", "E", "F", "T", " ", "P", "A", "R", "E", "N", "T", "H", "E", "S", "I", "S">>)
    @@ (")" :> <<"R", "I", "G", "H", "T", " ", "P", "A", "R", "E", "N", "T", "H", "E", "S", "I", "S">>)
    @@ ("-" :> <<"H", "Y", "P", "H", "E", "N", "-", "M", "I", "N", "U", "S">>)
    @@ ("_" :> <<"L", "O", "W", " ", "L", "I", "N", "E">>)
    @@ ("=" :> <<"E", "Q", "U", "A", "L", "S", " ", "S", "I", "G", "N">>)
    @@ ("+" :> <<"P", "L", "U", "S", " ", "S", "I", "G", "N">>)
    @@ ("[" :> <<"L", "E", "F", "T", " ", "S", "Q", "U", "A", "R", "E", " ", "B", "R", "A", "C", "K", "E", "T">>)
    @@ ("{" :> <<"L", "E", "F", "T", " ", "C", "U", "R", "L", "Y", " ", "B", "R", "A", "C", "K", "E", "T">>)
    @@ ("]" :> <<"R", "I", "G", "H", "T", " ", "S", "Q", "U", "A", "R", "E", " ", "B", "R", "A", "C", "K", "E", "T">>)
    @@ ("}" :> <<"R", "I", "G", "H", "T", " ", "C", "U", "R", "L", "Y", " ", "B", "R", "A", "C", "K", "E", "T">>)
    @@ ("\\" :> <<"R", "E", "V", "E", "R", "S", "E", " ", "S", "O", "L", "I", "D", "U", "S">>)
    @@ ("|" :> <<"V", "E", "R", "T", "I", "C", "A", "L", " ", "L", "I", "N", "E">>)
    @@ (";" :> <<"S", "E", "M", "I", "C", "O", "L", "O", "N">>)
    @@ (":" :> <<"C", "O", "L", "O", "N">>)
    @@ ("'" :> <<"A", "P", "O", "S", "T", "R", "O", "P", "H", "E">>)
    @@ ("\"" :> <<"Q", "U", "O", "T", "A", "T", "I", "O", "N", " ", "M", "A", "R", "K">>)
    @@ ("<" :> <<"L", "E", "S", "S", "-", "T", "H", "A", "N", " ", "S", "I", "G", "N">>)
    @@ ("," :> <<"C", "O", "M", "M", "A">>)
    @@ (">" :> <<"G", "R", "E", "A", "T", "E", "R", "-", "T", "H", "A", "N", " ", "S", "I", "G", "N">>)
    @@ ("." :> <<"F", "U", "L", "L", " ", "S", "T", "O", "P">>)
    @@ ("?" :> <<"Q", "U", "E", "S", "T", "I", "O", "N", " ", "M", "A", "R", "K">>)
    @@ ("/" :> <<"S", "O", "L", "I", "D", "U", "S">>)
    @@ (" " :> <<"S", "P", "A", "C", "E">>)
    @@ ("U+FFFD" :> <<"R", "E", "P", "L", "A", "C", "E", "M", "E", "N", "T", " ", "C", "H", "A", "R", "A", "C", "T", "E", "R">>)

unicodedata_name(character) == unicodedata_name_table[character]

(***************************************************************************)
(* name_for                                                                *)
(***************************************************************************)
\* name_for with the upper-case rule writing the letter in lower case
name_for_lowercased(font_id, character) ==
    IF character \in Range(lowercase_letters \o digits)
    THEN lower(font_id \o <<"-">> \o <<character>>)
    ELSE IF character \in Range(uppercase_letters)
    THEN lower(font_id \o <<"-", "u", "p", "p", "e", "r", "-">> \o <<character>>)
    ELSE LET name == replace(replace(lower(unicodedata_name(character)),
                                     "_", "-"), " ", "-")
         IN  lower(font_id \o <<"-", "s", "p", "e", "c", "i", "a", "l", "-">> \o name)

\* name_for without the upper-case rule: the lower-case rule tested on the
\* lower-cased character
name_for_caseless(font_id, character) ==
    IF lower_char(character) \in Range(lowercase_letters \o digits)
    THEN lower(font_id \o <<"-">> \o <<character>>)
    ELSE LET name == replace(replace(lower(unicodedata_name(character)),
                                     "_", "-"), " ", "-")
         IN  lower(font_id \o <<"-", "s", "p", "e", "c", "i", "a", "l", "-">> \o name)

name_for(font_id, character) ==
    IF character \in Range(lowercase_letters \o digits)
    THEN lower(font_id \o <<"-">> \o <<character>>)
    ELSE IF character \in Range(uppercase_letters)
    THEN font_id \o <<"-", "u", "p", "p", "e", "r", "-">> \o <<character>>
    ELSE LET name == replace(replace(lower(unicodedata_name(character)),
                                     "_", "-"), " ", "-")
         IN  lower(font_id \o <<"-", "s", "p", "e", "c", "i", "a", "l", "-">> \o name)

\* f"{font['id']}-replaceable"
replaceable_name(font_id) ==
    font_id \o <<"-", "r", "e", "p", "l", "a", "c", "e", "a", "b", "l", "e">>

(***************************************************************************)
(* Rendering.  The raster renderer is the external program `convert`: for *)
(* the model it either exits non-zero or leaves one of NumImages images   *)
(* in the file it was given.  The vector renderer is svg_letter.          *)
(***************************************************************************)
Image(n) == <<"PNG", ToString(n)>>

Images == { Image(n) : n \in 1..NumImages }

label_specials == (" " :> "label:\\ ") @@ ("\\" :> "label:\\\\")

\* label_specials.get(character, f'label:{character}')
label_for(character) ==
    IF character \in DOMAIN label_specials
    THEN label_specials[character]
    ELSE "label:" \o character

replacements == ("&" :> "&amp;") @@ ("<" :> "&lt;") @@ (">" :> "&gt;")

\* a float with one decimal, as an f-string prints width/2 and height*0.75
Tenths(n) == ToString(n \div 10) \o "." \o ToString(n % 10)

svg_letter(character, font) ==
    LET text == IF character \in DOMAIN replacements
                THEN replacements[character]
                ELSE character
    IN  <<"<svg width=", ToString(vector_width),
          " height=", ToString(vector_height),
          "><text x=", Tenths((vector_width * 10) \div 2),
          " y=", Tenths((vector_height * 75) \div 10),
          " font-family=", font, ">", text, "</text></svg>">>

(***************************************************************************)
(* Files.  A directory is a function from file names to contents.         *)
(***************************************************************************)
EmptyDir == [n \in {} |-> <<>>]

write_file(dir, filename, content) == (filename :> content) @@ dir

RECURSIVE JoinTokens(_)
JoinTokens(tokens) ==
    IF tokens = <<>> THEN "" ELSE Head(tokens) \o "|" \o JoinTokens(Tail(tokens))

\* hashlib.md5(...).hexdigest(): a digest that differs whenever the content
\* differs (collision-free), as a string
md5_hexdigest(content) == "md5:" \o JoinTokens(content)

md5sum_file(dir, filename) == md5_hexdigest(dir[filename])

\* shutil.copy(src, dst)
shutil_copy(dir, src, dst) == write_file(dir, dst, dir[src])

(***************************************************************************)
(* generate_glyph, after the renderer has produced `rendered`: the new    *)
(* directory content and the costume returned.                            *)
(***************************************************************************)
StageGlyph(dir, tmp, md5hash, ext) == shutil_copy(dir, tmp, md5hash \o "." \o ext)

raster_costume(md5hash, name) ==
    [assetId |-> md5hash,
     name |-> name,
     bitmapResolution |-> 2,
     md5ext |-> md5hash \o ".png",
     dataFormat |-> "png",
     rotationCenterX |-> width \div 2,
     rotationCenterY |-> height \div 2]

vector_costume(md5hash, name) ==
    [assetId |-> md5hash,
     name |-> name,
     md5ext |-> md5hash \o ".svg",
     dataFormat |-> "svg",
     rotationCenterX |-> vector_width \div 2,
     rotationCenterY |-> vector_height \div 2]

\* generate_glyph taking the checksum of the temporary file before the
\* renderer has overwritten it (when it is there from the glyph before)
generate_glyph_stale_checksum(kind, dir, tmp, name, rendered) ==
    LET written == write_file(dir, tmp, rendered)
        md5hash == IF tmp \in DOMAIN dir
                   THEN md5sum_file(dir, tmp)
                   ELSE md5sum_file(written, tmp)
    IN  [dir |-> StageGlyph(written, tmp, md5hash,
                            IF kind = "raster" THEN "png" ELSE "svg"),
         costume |-> IF kind = "raster"
                     THEN raster_costume(md5hash, name)
                     ELSE vector_costume(md5hash, name)]

generate_glyph(kind, dir, tmp, name, rendered) ==
    LET written == write_file(dir, tmp, rendered)
        md5hash == md5sum_file(written, tmp)
    IN  [dir |-> StageGlyph(written, tmp, md5hash,
                            IF kind = "raster" THEN "png" ELSE "svg"),
         costume |-> IF kind = "raster"
                     THEN raster_costume(md5hash, name)
                     ELSE vector_costume(md5hash, name)]

(***************************************************************************)
(* JSON and dicts.  A JSON object text is the sequence of its members     *)
(* <<key, value>> (a key may occur twice); a dict is such a sequence with *)
(* every key once, in insertion order.                                    *)
(***************************************************************************)
dict_has(d, k) == \E i \in 1..Len(d) : d[i][1] = k

dict_get(d, k) == d[CHOOSE i \in 1..Len(d) : d[i][1] = k][2]

\* d[k] = v
dict_set(d, k, v) ==
    IF dict_has(d, k)
    THEN [i \in 1..Len(d) |-> IF d[i][1] = k THEN <<k, v>> ELSE d[i]]
    ELSE Append(d, <<k, v>>)

RECURSIVE json_load_members(_, _)
json_load_members(text, n) ==
    IF n = 0 THEN <<>>
    ELSE dict_set(json_load_members(text, n - 1), text[n][1], text[n][2])

\* json.load: a later member with the same key replaces the earlier value
json_load(text) == json_load_members(text, Len(text))

\* json.dumps: one member per key, in insertion order
json_dumps(obj) == [i \in 1..Len(obj) |-> <<obj[i][1], obj[i][2]>>]

(***************************************************************************)
(* Zip archives: [zip, entries]; an entry is [arcname, data].             *)
(***************************************************************************)
has_entry(archive, arcname) ==
    \E i \in 1..Len(archive.entries) : archive.entries[i].arcname = arcname

\* ZipFile.read(name): the last entry of that name
read_entry(archive, arcname) ==
    LET hits == { i \in 1..Len(archive.entries) :
                    archive.entries[i].arcname = arcname }
    IN  archive.entries[CHOOSE i \in hits : \A j \in hits : j <= i].data

\* load_sprite_code that leaves the sounds where they are
load_sprite_code_keeping_sounds(archive) ==
    IF ~archive.zip THEN [error |-> "BadZipFile", sprite |-> <<>>]
    ELSE IF ~has_entry(archive, "sprite.json")
    THEN [error |-> "KeyError", sprite |-> <<>>]
    ELSE LET sprite == json_load(read_entry(archive, "sprite.json"))
             s1 == dict_set(sprite, "costumes", <<>>)
             s2 == dict_set(s1, "current_costume", 0)
         IN  [error |-> "", sprite |-> s2]

\* load_sprite_code: [error, sprite]
load_sprite_code(archive) ==
    IF ~archive.zip THEN [error |-> "BadZipFile", sprite |-> <<>>]
    ELSE IF ~has_entry(archive, "sprite.json")
    THEN [error |-> "KeyError", sprite |-> <<>>]
    ELSE LET sprite == json_load(read_entry(archive, "sprite.json"))
             s1 == dict_set(sprite, "costumes", <<>>)
             s2 == dict_set(s1, "current_costume", 0)
             s3 == dict_set(s2, "sounds", <<>>)
         IN  [error |-> "", sprite |-> s3]

(***************************************************************************)
(* Inputs of a run.                                                        *)
(***************************************************************************)
\* a costume of the sprite the input archive was exported with
OldCostume ==
    [assetId |-> "md5:old", name |-> <<"o", "l", "d">>, bitmapResolution |-> 2,
     md5ext |-> "md5:old.png", dataFormat |-> "png",
     rotationCenterX |-> 1, rotationCenterY |-> 1]

\* sprite.json texts: "blocks", "name", "currentCostume" stand for the
\* behaviour payload the program does not look at
InputManifests ==
    << << <<"name", "Printer">>, <<"blocks", "code-1">>,
          <<"costumes", <<OldCostume>> >>, <<"sounds", <<"pop">> >>,
          <<"current_costume", 3>> >>,
       << <<"blocks", "code-2">>, <<"currentCostume", 1>> >>,
       << <<"blocks", "code-1">>, <<"costumes", <<OldCostume, OldCostume>> >>,
          <<"blocks", "code-3">>, <<"current_costume", 1>>,
          <<"sounds", <<>> >> >> >>

InputArchives ==
    << [zip |-> FALSE, entries |-> <<>>],
       [zip |-> TRUE, entries |-> <<>>] >> \o
    [i \in 1..Len(InputManifests) |->
        [zip |-> TRUE,
         entries |-> << [arcname |-> "sprite.json", data |-> InputManifests[i]] >>]]

\* what is at the output path before the run: nothing, or an earlier result
NoFile == [exists |-> FALSE, entries |-> <<>>, closed |-> TRUE]

OutputsBefore ==
    << NoFile,
       [exists |-> TRUE,
        entries |-> << [arcname |-> "sprite.json", data |-> InputManifests[1]] >>,
        closed |-> TRUE] >>

\* the character a raster run renders after each fallback glyph (for every
\* glyph a raster run takes every image the renderer may produce; a vector
\* run renders the whole character set)
RasterSample == {"A"}

(***************************************************************************)
(* State.                                                                  *)
(***************************************************************************)
VARIABLES
    variant,        \* "raster" or "vector": which of the two programs runs
    input,          \* the archive at the input path
    output,         \* the file at the output path
    output_before,  \* the file at the output path when the run started
    pc,             \* where the run is
    error,          \* the exception raised, "" if none
    temp_dir,       \* content of the directory temp_dir names
    temp_png,       \* name of the temporary image (temp_png / temp_svg)
    sprite,         \* the dict load_sprite_code returned
    font_i,         \* generate_glyphs: index of the font being rendered
    char_i,         \* generate_glyphs: index of the next character, 0 = fallback
    emitted,        \* the costumes generate_glyphs has yielded so far
    written_files,  \* assemble_sprite: written_files
    costume_i,      \* assemble_sprite: index of the costume being looked at
    call_font_id,   \* a call of name_for on its own: font_id
    call_character, \* a call of name_for on its own: character
    call_name       \* a call of name_for on its own: the name returned

name_call == <<call_font_id, call_character, call_name>>

vars == <<variant, input, output, output_before, pc, error, temp_dir, temp_png,
          sprite, font_i, char_i, emitted, written_files, costume_i,
          call_font_id, call_character, call_name>>

run_fonts == IF variant = "raster" THEN SubSeq(fonts, 1, NumFonts) ELSE vector_fonts

run_characters ==
    IF variant = "raster"
    THEN SelectSeq(characters, LAMBDA c : c \in RasterSample)
    ELSE characters

costumes_of(s) == dict_get(s, "costumes")

NoCall ==
    /\ call_font_id = <<>>
    /\ call_character = ""
    /\ call_name = <<>>

InitCommon ==
    /\ NoCall
    /\ \E i \in 1..Len(InputArchives) : input = InputArchives[i]
    /\ \E i \in 1..Len(OutputsBefore) : output = OutputsBefore[i]
    /\ output_before = output
    /\ error = ""
    /\ temp_png = "tmp.png"
    /\ sprite = <<>>
    /\ font_i = 1
    /\ char_i = 0
    /\ emitted = <<>>
    /\ written_files = {}
    /\ costume_i = 1

Init ==
    /\ InitCommon
    /\ variant \in {"raster", "vector"}
    /\ pc = "enter"
    /\ temp_dir = EmptyDir

(***************************************************************************)
(* main                                                                    *)
(***************************************************************************)
\* with tempfile.TemporaryDirectory(...) as temp_dir: a fresh directory;
\* temp_png = os.path.join(temp_dir, 'tmp.png')
MainEnter ==
    /\ pc = "enter"
    /\ temp_dir' = EmptyDir
    /\ temp_png' = "tmp.png"
    /\ pc' = "load"
    /\ UNCHANGED <<variant, input, output, output_before, error, sprite,
                   font_i, char_i, emitted, written_files, costume_i>>
    /\ UNCHANGED name_call

\* sprite = load_sprite_code('../input/Printer.sprite3')
Load(then) ==
    /\ pc = "load"
    /\ LET r == load_sprite_code(input)
       IN  IF r.error = ""
           THEN /\ sprite' = r.sprite
                /\ pc' = then
                /\ UNCHANGED error
           ELSE /\ error' = r.error
                /\ pc' = "raised"
                /\ UNCHANGED sprite
    /\ UNCHANGED <<variant, input, output, output_before, temp_dir, temp_png,
                   font_i, char_i, emitted, written_files, costume_i>>
    /\ UNCHANGED name_call

\* generate_glyphs yielding the fallback glyph of a font after its characters
glyph_request_fallback_last(kind, fs, cs, f, c) ==
    LET font == IF kind = "raster" THEN fs[f].filename ELSE fs[f].fontname
    IN  IF c = Len(cs)
        THEN [font |-> IF kind = "raster" THEN replacement_font ELSE font,
              name |-> replaceable_name(fs[f].id),
              what |-> IF kind = "raster"
                       THEN "label:" \o replacement_character
                       ELSE "U+FFFD"]
        ELSE [font |-> font,
              name |-> name_for(fs[f].id, cs[c + 1]),
              what |-> IF kind = "raster" THEN label_for(cs[c + 1]) ELSE cs[c + 1]]

\* what generate_glyphs passes to generate_glyph at position (f, c)
glyph_request(kind, fs, cs, f, c) ==
    IF kind = "raster"
    THEN IF c = 0
         THEN [font |-> replacement_font,
               name |-> replaceable_name(fs[f].id),
               what |-> "label:" \o replacement_character]
         ELSE [font |-> fs[f].filename,
               name |-> name_for(fs[f].id, cs[c]),
               what |-> label_for(cs[c])]
    ELSE IF c = 0
         THEN [font |-> fs[f].fontname,
               name |-> replaceable_name(fs[f].id),
               what |-> "U+FFFD"]
         ELSE [font |-> fs[f].fontname,
               name |-> name_for(fs[f].id, cs[c]),
               what |-> cs[c]]

\* what the renderer can leave in the temporary file
renderings(kind, req) ==
    IF kind = "raster" THEN Images ELSE {svg_letter(req.what, req.font)}

\* appending only costumes whose image no earlier costume has
append_costume_merging(s, costume) ==
    IF \E i \in 1..Len(dict_get(s, "costumes")) :
          dict_get(s, "costumes")[i].md5ext = costume.md5ext
    THEN s
    ELSE dict_set(s, "costumes", Append(dict_get(s, "costumes"), costume))

\* sprite['costumes'].append(costume)
append_costume(s, costume) ==
    dict_set(s, "costumes", Append(costumes_of(s), costume))

\* one turn of `for costume in generate_glyphs(): sprite['costumes'].append(costume)`
Generate ==
    /\ pc = "generate"
    /\ font_i <= Len(run_fonts)
    /\ LET req == glyph_request(variant, run_fonts, run_characters, font_i, char_i)
       IN  \E rendered \in renderings(variant, req) :
              LET g == generate_glyph(variant, temp_dir, temp_png, req.name, rendered)
              IN  /\ temp_dir' = g.dir
                  /\ emitted' = Append(emitted, g.costume)
                  /\ sprite' = append_costume(sprite, g.costume)
    /\ IF char_i < Len(run_characters)
       THEN char_i' = char_i + 1 /\ UNCHANGED font_i
       ELSE char_i' = 0 /\ font_i' = font_i + 1
    /\ UNCHANGED <<variant, input, output, output_before, pc, error, temp_png,
                   written_files, costume_i>>
    /\ UNCHANGED name_call

\* a failed rendering that is skipped: the run goes on to assemble_sprite
GenerateFailsIgnored ==
    /\ pc = "generate"
    /\ font_i <= Len(run_fonts)
    /\ variant = "raster"
    /\ error' = "CalledProcessError"
    /\ pc' = "open"
    /\ UNCHANGED <<variant, input, output, output_before, temp_dir, temp_png,
                   sprite, font_i, char_i, emitted, written_files, costume_i>>
    /\ UNCHANGED name_call

\* subprocess.check_call(argv) raises: convert exited non-zero
GenerateFails ==
    /\ pc = "generate"
    /\ font_i <= Len(run_fonts)
    /\ variant = "raster"
    /\ error' = "CalledProcessError"
    /\ pc' = "raised"
    /\ UNCHANGED <<variant, input, output, output_before, temp_dir, temp_png,
                   sprite, font_i, char_i, emitted, written_files, costume_i>>
    /\ UNCHANGED name_call

\* assemble_sprite called after the `with` block of main has ended: the
\* temporary directory is removed before the costumes are read
GenerateEndsOutsideWith ==
    /\ pc = "generate"
    /\ font_i > Len(run_fonts)
    /\ temp_dir' = EmptyDir
    /\ pc' = "open"
    /\ UNCHANGED <<variant, input, output, output_before, error, temp_png,
                   sprite, font_i, char_i, emitted, written_files, costume_i>>
    /\ UNCHANGED name_call

\* generate_glyphs is exhausted: main goes on to assemble_sprite
GenerateEnds ==
    /\ pc = "generate"
    /\ font_i > Len(run_fonts)
    /\ pc' = "open"
    /\ UNCHANGED <<variant, input, output, output_before, error, temp_dir,
                   temp_png, sprite, font_i, char_i, emitted, written_files,
                   costume_i>>
    /\ UNCHANGED name_call

(***************************************************************************)
(* assemble_sprite                                                         *)
(***************************************************************************)
\* zipfile.ZipFile(sprite3_filename, 'w'): the file is created or truncated
zip_open_w == [exists |-> TRUE, entries |-> <<>>, closed |-> FALSE]

\* archive.write(path, arcname=...) / archive.writestr(name, data)
zip_add(archive, arcname, data) ==
    [archive EXCEPT !.entries = Append(@, [arcname |-> arcname, data |-> data])]

\* leaving the `with` block closes the archive (the central directory is
\* written), whether or not an exception is passing through
zip_close(archive) == [archive EXCEPT !.closed = TRUE]

\* assemble_sprite without the written_files test
always_write(costume, written) == TRUE

\* costume['md5ext'] not in written_files
not_yet_written(costume, written) == costume.md5ext \notin written

AssembleOpen ==
    /\ pc = "open"
    /\ output' = zip_open_w
    /\ written_files' = {}
    /\ costume_i' = 1
    /\ pc' = "costumes"
    /\ UNCHANGED <<variant, input, output_before, error, temp_dir, temp_png,
                   sprite, font_i, char_i, emitted>>
    /\ UNCHANGED name_call

\* one turn of `for costume in sprite['costumes']`
AssembleCostume ==
    /\ pc = "costumes"
    /\ costume_i <= Len(costumes_of(sprite))
    /\ LET costume == costumes_of(sprite)[costume_i]
       IN  IF not_yet_written(costume, written_files)
           THEN IF costume.md5ext \in DOMAIN temp_dir
                THEN /\ output' = zip_add(output, costume.md5ext,
                                          temp_dir[costume.md5ext])
                     /\ written_files' = written_files \cup {costume.md5ext}
                     /\ costume_i' = costume_i + 1
                     /\ UNCHANGED <<pc, error>>
                ELSE /\ error' = "FileNotFoundError"
                     /\ output' = zip_close(output)
                     /\ pc' = "raised"
                     /\ UNCHANGED <<written_files, costume_i>>
           ELSE /\ costume_i' = costume_i + 1
                /\ UNCHANGED <<output, written_files, pc, error>>
    /\ UNCHANGED <<variant, input, output_before, temp_dir, temp_png, sprite,
                   font_i, char_i, emitted>>
    /\ UNCHANGED name_call

\* archive.writestr('sprite.json', data=json.dumps(sprite)), end of `with`
AssembleManifest ==
    /\ pc = "costumes"
    /\ costume_i > Len(costumes_of(sprite))
    /\ output' = zip_close(zip_add(output, "sprite.json", json_dumps(sprite)))
    /\ pc' = "returned"
    /\ UNCHANGED <<variant, input, output_before, error, temp_dir, temp_png,
                   sprite, font_i, char_i, emitted, written_files, costume_i>>
    /\ UNCHANGED name_call

\* end of `with tempfile.TemporaryDirectory(...)`: the directory is removed,
\* on return and when an exception leaves main
MainExit ==
    /\ pc \in {"returned", "raised"}
    /\ temp_dir' = EmptyDir
    /\ pc' = IF pc = "returned" THEN "done" ELSE "failed"
    /\ UNCHANGED <<variant, input, output, output_before, error, temp_png,
                   sprite, font_i, char_i, emitted, written_files, costume_i>>
    /\ UNCHANGED name_call

Next ==
    \/ MainEnter
    \/ Load("generate")
    \/ Generate
    \/ GenerateFails
    \/ GenerateEnds
    \/ AssembleOpen
    \/ AssembleCostume
    \/ AssembleManifest
    \/ MainExit

Spec == Init /\ [][Next]_vars

(***************************************************************************)
(* assemble_sprite called on a sprite whose costumes the caller appended  *)
(* by hand, with any subset of the images staged in temp_dir.             *)
(***************************************************************************)
md5ext_of(image) == md5_hexdigest(image) \o ".png"

staged(images) ==
    [n \in { md5ext_of(i) : i \in images } |->
        CHOOSE i \in images : md5ext_of(i) = n]

InitAssemble ==
    /\ InitCommon
    /\ variant = "raster"
    /\ pc = "load"
    /\ \E images \in SUBSET Images : temp_dir = staged(images)

\* the caller appends the costume of an image under the next free name
AppendByHand ==
    /\ pc = "append"
    /\ Len(costumes_of(sprite)) < MaxCostumes
    /\ \E image \in Images :
          sprite' = append_costume(sprite,
                       raster_costume(md5_hexdigest(image),
                                      <<"c", ToString(Len(costumes_of(sprite)) + 1)>>))
    /\ UNCHANGED <<variant, input, output, output_before, pc, error, temp_dir,
                   temp_png, font_i, char_i, emitted, written_files, costume_i>>
    /\ UNCHANGED name_call

\* assemble_sprite(sprite, '../output/Printer.sprite3')
CallAssemble ==
    /\ pc = "append"
    /\ pc' = "open"
    /\ UNCHANGED <<variant, input, output, output_before, error, temp_dir,
                   temp_png, sprite, font_i, char_i, emitted, written_files,
                   costume_i>>
    /\ UNCHANGED name_call

NextAssemble ==
    \/ Load("append")
    \/ AppendByHand
    \/ CallAssemble
    \/ AssembleOpen
    \/ AssembleCostume
    \/ AssembleManifest

SpecAssemble == InitAssemble /\ [][NextAssemble]_vars

(***************************************************************************)
(* name_for called on its own, on every font id of the two programs and   *)
(* every character of the character set.                                  *)
(***************************************************************************)
font_ids ==
    { fonts[i].id : i \in 1..Len(fonts) } \cup
    { vector_fonts[i].id : i \in 1..Len(vector_fonts) }

InitNameFor ==
    /\ variant = "raster"
    /\ input = InputArchives[1]
    /\ output = NoFile
    /\ output_before = NoFile
    /\ pc = "name_for"
    /\ error = ""
    /\ temp_dir = EmptyDir
    /\ temp_png = "tmp.png"
    /\ sprite = <<>>
    /\ font_i = 1
    /\ char_i = 0
    /\ emitted = <<>>
    /\ written_files = {}
    /\ costume_i = 1
    /\ call_font_id \in font_ids
    /\ call_character \in Range(characters)
    /\ call_name = <<>>

CallNameFor ==
    /\ pc = "name_for"
    /\ call_name' = name_for(call_font_id, call_character)
    /\ pc' = "named"
    /\ UNCHANGED <<variant, input, output, output_before, error, temp_dir,
                   temp_png, sprite, font_i, char_i, emitted, written_files,
                   costume_i, call_font_id, call_character>>

NextNameFor == CallNameFor

SpecNameFor == InitNameFor /\ [][NextNameFor]_vars

(***************************************************************************)
(* Properties.                                                             *)
(***************************************************************************)
\* the value of member k of a JSON object text: its last occurrence
FieldOf(text, k) ==
    text[CHOOSE i \in 1..Len(text) :
            /\ text[i][1] = k
            /\ \A j \in (i + 1)..Len(text) : text[j][1] # k][2]

KeysOf(text) == { text[i][1] : i \in 1..Len(text) }

\* the manifest in the output archive
WrittenManifest == read_entry(output, "sprite.json")

BinaryNames ==
    { output.entries[i].arcname : i \in
        { j \in 1..Len(output.entries) : output.entries[j].arcname # "sprite.json" } }

ExpectedCount == Len(run_fonts) * (1 + Len(run_characters))

\* C1: when assemble_sprite has returned, no two entries of the output
\* archive have the same name, the binary entries are exactly the md5ext
\* values of the costumes, and the manifest written lists every costume.
C1_OneBinaryPerDigest ==
    pc = "returned" =>
        LET costumes == costumes_of(sprite)
        IN  /\ \A i, j \in 1..Len(output.entries) :
                  i # j => output.entries[i].arcname # output.entries[j].arcname
            /\ BinaryNames = { costumes[k].md5ext : k \in 1..Len(costumes) }
            /\ has_entry(output, "sprite.json")
            /\ FieldOf(WrittenManifest, "costumes") = costumes

\* C1 witness: assembly returned for a list in which two costumes share an
\* md5ext and a third has another one
C1_Witness ==
    /\ pc = "returned"
    /\ LET costumes == costumes_of(sprite)
       IN  /\ \E i, j \in 1..Len(costumes) :
                 i < j /\ costumes[i].md5ext = costumes[j].md5ext
           /\ Cardinality(BinaryNames) = 2

\* C2: when assemble_sprite fails on a costume whose md5ext is not staged,
\* the file at the output path is what it was before the call.
C2_OutputUntouchedOnMissingAsset ==
    error = "FileNotFoundError" => output = output_before

\* C4: load_sprite_code followed by assemble_sprite with no costume appended
\* writes a manifest with costumes = [], sounds = [], current_costume = 0 and
\* every other field of the input manifest unchanged, and nothing else.
C4_RoundTrip ==
    (pc = "returned" /\ costumes_of(sprite) = <<>>) =>
        LET before == read_entry(input, "sprite.json")
            after == WrittenManifest
            touched == {"costumes", "sounds", "current_costume"}
        IN  /\ Len(output.entries) = 1
            /\ touched \subseteq KeysOf(after)
            /\ FieldOf(after, "costumes") = <<>>
            /\ FieldOf(after, "sounds") = <<>>
            /\ FieldOf(after, "current_costume") = 0
            /\ KeysOf(after) \ touched = KeysOf(before) \ touched
            /\ \A k \in KeysOf(before) \ touched :
                  FieldOf(after, k) = FieldOf(before, k)

\* C4 witness: the round trip on an input manifest that had costumes,
\* sounds, another current_costume and a behaviour payload
C4_Witness ==
    /\ pc = "returned"
    /\ costumes_of(sprite) = <<>>
    /\ LET before == read_entry(input, "sprite.json")
       IN  /\ {"costumes", "sounds", "current_costume", "blocks"} \subseteq KeysOf(before)
           /\ FieldOf(before, "costumes") # <<>>
           /\ FieldOf(before, "sounds") # <<>>
           /\ FieldOf(before, "current_costume") # 0

\* the name the claim gives the descriptor at place p of the stream: place 1
\* of each font is its fallback, the places after it its characters in order
NameAtPlace(p) ==
    LET per_font == 1 + Len(run_characters)
        f == ((p - 1) \div per_font) + 1
        c == (p - 1) % per_font
    IN  IF c = 0
        THEN replaceable_name(run_fonts[f].id)
        ELSE name_for(run_fonts[f].id, run_characters[c])

\* C3: generate_glyphs emits, font by font in configured order, first the
\* font's "-replaceable" descriptor and then one descriptor per character in
\* character-set order; the first descriptor is the first font's fallback.
\* (Every descriptor is compared with its place when it is emitted, and all
\* of them again when the stream has been consumed to its end.)
C3_EmissionOrder ==
    /\ Len(emitted) <= ExpectedCount
    /\ Len(emitted) >= 1 =>
          /\ emitted[1].name = replaceable_name(run_fonts[1].id)
          /\ emitted[Len(emitted)].name = NameAtPlace(Len(emitted))
    /\ pc = "open" =>
          /\ Len(emitted) = ExpectedCount
          /\ \A p \in 1..Len(emitted) : emitted[p].name = NameAtPlace(p)

\* C3 witness: a finished run over at least two fonts
C3_Witness ==
    /\ pc = "done"
    /\ Len(run_fonts) >= 2
    /\ Len(emitted) = ExpectedCount
    /\ emitted[2 + Len(run_characters)].name = replaceable_name(run_fonts[2].id)

\* a name with its font id and the hyphen after it removed
Suffix(name, font_id) == SubSeq(name, Len(font_id) + 2, Len(name))

C6_NamesDistinct ==
    pc = "open" =>
        Cardinality({ emitted[p].name : p \in 1..Len(emitted) }) = Len(emitted)

\* C6 witness: a full run over the vector fonts, whose ids include
\* "sans-serif" next to "serif"
C6_Witness ==
    /\ pc = "open"
    /\ variant = "vector"
    /\ Len(emitted) = Len(vector_fonts) * (1 + Len(characters))
    /\ \E f, g \in 1..Len(run_fonts) :
          /\ run_fonts[f].id = <<"s", "e", "r", "i", "f">>
          /\ run_fonts[g].id = <<"s", "a", "n", "s", "-">> \o run_fonts[f].id

NameCharacters == Range(lowercase_letters) \cup Range(digits) \cup {"-"}

\* C7: every costume name in the manifest written to the output archive
\* consists of the characters a-z, 0-9 and hyphen only.
C7_NamesInGrammar ==
    pc = "returned" =>
        LET costumes == FieldOf(WrittenManifest, "costumes")
        IN  \A k \in 1..Len(costumes) :
               /\ costumes[k].name # <<>>
               /\ Range(costumes[k].name) \subseteq NameCharacters

\* C8: from the moment generate_glyph returns a descriptor until main leaves
\* the temporary directory, the file md5ext names is staged, assetId is the
\* digest of its content and md5ext is assetId "." dataFormat (so that
\* descriptors with the same assetId name one staged file).
C8_DigestOfStagedBytes ==
    pc \notin {"done", "failed"} =>
        \A p \in 1..Len(emitted) :
              LET d == emitted[p]
              IN  /\ d.md5ext \in DOMAIN temp_dir
                  /\ d.assetId = md5_hexdigest(temp_dir[d.md5ext])
                  /\ d.md5ext = d.assetId \o "." \o d.dataFormat

\* C8 witness: assembly has returned, two descriptors have different digests
\* and the temporary file has been overwritten since the first was staged
C8_Witness ==
    /\ pc = "returned"
    /\ Len(emitted) >= 2
    /\ emitted[1].assetId # emitted[Len(emitted)].assetId
    /\ temp_dir[temp_png] # temp_dir[emitted[1].md5ext]

\* C9: while main loads and generates, and after either has failed, the
\* file at the output path is what it was before the run; assemble_sprite
\* starts only with no error and the whole stream consumed.
C9_NoAssemblyAfterFailure ==
    /\ (pc \in {"enter", "load", "generate"}
          \/ error \in {"BadZipFile", "KeyError", "CalledProcessError"})
       => /\ output = output_before
          /\ written_files = {}
    /\ pc \in {"open", "costumes", "returned"}
       => /\ error \in {"", "FileNotFoundError"}
          /\ Len(emitted) = ExpectedCount
          /\ font_i > Len(run_fonts)

\* C9 witness: the renderer failed after some glyphs, main has ended and an
\* earlier archive is still at the output path
C9_Witness ==
    /\ pc = "failed"
    /\ error = "CalledProcessError"
    /\ Len(emitted) >= 2
    /\ output.exists
    /\ output = output_before

\* C10: after a successful run the costumes of the manifest written are the
\* descriptors generate_glyphs emitted, in that order, |fonts| *
\* (1 + |characters|) of them, and current_costume is 0.
C10_ManifestIsStream ==
    (pc \in {"returned", "done"} /\ error = "") =>
        /\ FieldOf(WrittenManifest, "costumes") = emitted
        /\ Len(FieldOf(WrittenManifest, "costumes")) = ExpectedCount
        /\ FieldOf(WrittenManifest, "current_costume") = 0

\* C10 witness: a successful run in which two descriptors share a digest,
\* on an input archive that had costumes
C10_Witness ==
    /\ pc = "done"
    /\ error = ""
    /\ FieldOf(read_entry(input, "sprite.json"), "costumes") # <<>>
    /\ \E i, j \in 1..Len(emitted) : i < j /\ emitted[i].md5ext = emitted[j].md5ext
    /\ Cardinality(BinaryNames) < Len(emitted)

\* C11: in main, once generation has ended without error, every costume
\* assemble_sprite reads has its md5ext staged in the temporary directory
\* with the bytes the glyph was rendered to, FileNotFoundError is never
\* raised, and assemble_sprite returns with the manifest written while the
\* temporary directory is still there.
C11_NoMissingAssetInMain ==
    /\ error # "FileNotFoundError"
    /\ pc \in {"open", "costumes", "returned"} =>
          /\ error = ""
          /\ costumes_of(sprite) = emitted
          /\ \A k \in 1..Len(emitted) :
                /\ emitted[k].md5ext \in DOMAIN temp_dir
                /\ md5_hexdigest(temp_dir[emitted[k].md5ext]) = emitted[k].assetId
    /\ pc = "returned" =>
          /\ output.closed
          /\ has_entry(output, "sprite.json")
          /\ BinaryNames = { emitted[k].md5ext : k \in 1..Len(emitted) }

\* C11 witness: assemble_sprite has returned in main after a generation in
\* which a later glyph was rendered to other bytes than the first
C11_Witness ==
    /\ pc = "returned"
    /\ error = ""
    /\ Len(emitted) = ExpectedCount
    /\ has_entry(output, "sprite.json")
    /\ emitted[1].md5ext \in DOMAIN temp_dir
    /\ \E k \in 2..Len(emitted) : emitted[k].md5ext # emitted[1].md5ext

====
